---- MODULE Spec2Model ----
(***************************************************************************)
(* Model of src/src/app.py (HetrixTools uptime log -> Gantt chart).        *)
(*                                                                         *)
(* A Python str is modelled as a sequence of one-character strings, so     *)
(* that substring tests, the two regular expressions, strip/rstrip/lower   *)
(* and str() act on characters as they do in the program.  Other JSON      *)
(* values are tagged records (see Str, IntV, NoneV, ...).                  *)
(***************************************************************************)
EXTENDS Integers, Sequences, FiniteSets, TLC

(***************************************************************************)
(* Python values                                                           *)
(***************************************************************************)
\* Every value has the same three fields so that any two can be compared.
\*   "str"      a str, characters in s
\*   "int"      an int within the datetime range, value n
\*   "none"     None (JSON null)
\*   "missing"  the key is absent from the dict
\*   "yearout"  the int 253402300800, just past year 9999
\*   "huge"     the int 10**20, outside the platform time_t range
Str(s) == [t |-> "str", s |-> s, n |-> 0]
IntV(n) == [t |-> "int", s |-> <<>>, n |-> n]
NoneV == [t |-> "none", s |-> <<>>, n |-> 0]
Missing == [t |-> "missing", s |-> <<>>, n |-> 0]
YearOutV == [t |-> "yearout", s |-> <<>>, n |-> 0]
HugeV == [t |-> "huge", s |-> <<>>, n |-> 0]

(***************************************************************************)
(* Characters and the str methods the program calls                        *)
(***************************************************************************)
\* the characters that str.strip() removes and the regex class \s matches,
\* among those the inputs are written with: space, tab, newline, carriage
\* return, form feed
WhiteSpace == {" ", "\t", "\n", "\r", "\f"}

IsSpace(c) == c \in WhiteSpace

UpperLetters == <<"A","B","C","D","E","F","G","H","I","J","K","L","M",
                  "N","O","P","Q","R","S","T","U","V","W","X","Y","Z">>

LowerLetters == <<"a","b","c","d","e","f","g","h","i","j","k","l","m",
                  "n","o","p","q","r","s","t","u","v","w","x","y","z">>

LowerChar(c) ==
    IF \E i \in 1..Len(UpperLetters) : UpperLetters[i] = c
    THEN LowerLetters[CHOOSE i \in 1..Len(UpperLetters) : UpperLetters[i] = c]
    ELSE c

\* str.lower()
Lower(s) == [i \in 1..Len(s) |-> LowerChar(s[i])]

\* s[a..b] (1-based, inclusive; empty when b < a)
Slice(s, a, b) == IF b < a THEN <<>> ELSE SubSeq(s, a, b)

\* str.strip(): surrounding whitespace removed
Strip(s) ==
    LET keep == {i \in 1..Len(s) : ~IsSpace(s[i])}
    IN  IF keep = {} THEN <<>>
        ELSE Slice(s, CHOOSE i \in keep : \A j \in keep : i <= j,
                      CHOOSE i \in keep : \A j \in keep : j <= i)

\* str.rstrip("/"): every trailing "/" removed
RStripSlash(s) ==
    LET keep == {i \in 1..Len(s) : s[i] # "/"}
    IN  IF keep = {} THEN <<>>
        ELSE Slice(s, 1, CHOOSE i \in keep : \A j \in keep : j <= i)

\* re.sub(r"\s+", " ", s): each maximal run of whitespace becomes one space
RECURSIVE CollapseSpaces(_)
CollapseSpaces(s) ==
    IF s = <<>> THEN <<>>
    ELSE IF IsSpace(Head(s))
         THEN IF Len(s) > 1 /\ IsSpace(s[2])
              THEN CollapseSpaces(Tail(s))
              ELSE <<" ">> \o CollapseSpaces(Tail(s))
         ELSE <<Head(s)>> \o CollapseSpaces(Tail(s))

\* lit occurs in s starting at position p
LitAt(s, p, lit) ==
    /\ p >= 1
    /\ p + Len(lit) - 1 <= Len(s)
    /\ \A k \in 1..Len(lit) : s[p + k - 1] = lit[k]

\* the same, ignoring letter case (re.IGNORECASE)
LitAtIgnoreCase(s, p, lit) ==
    /\ p >= 1
    /\ p + Len(lit) - 1 <= Len(s)
    /\ \A k \in 1..Len(lit) : LowerChar(s[p + k - 1]) = LowerChar(lit[k])

\* "lit in s" on two strs
Contains(s, lit) == \E p \in 1..(Len(s) + 1) : LitAt(s, p, lit)

\* first position >= p that holds no whitespace (Len(s)+1 when none)
SkipSpaces(s, p) ==
    LET stops == {q \in p..(Len(s) + 1) : q = Len(s) + 1 \/ ~IsSpace(s[q])}
    IN  CHOOSE q \in stops : \A r \in stops : q <= r

Min(S) == CHOOSE x \in S : \A y \in S : x <= y

Max(S) == CHOOSE x \in S : \A y \in S : y <= x

\* decimal digits of a natural number, as str() prints them
Digits == <<"0","1","2","3","4","5","6","7","8","9">>

RECURSIVE NatToStr(_)
NatToStr(n) ==
    IF n < 10 THEN <<Digits[n + 1]>>
    ELSE NatToStr(n \div 10) \o <<Digits[(n % 10) + 1]>>

\* str(v)
PyStr(v) ==
    CASE v.t = "str" -> v.s
      [] v.t = "int" -> IF v.n < 0 THEN <<"-">> \o NatToStr(-v.n) ELSE NatToStr(v.n)
      [] v.t = "yearout" -> <<"2","5","3","4","0","2","3","0","0","8","0","0">>
      [] v.t = "huge" -> <<"1","0","0","0","0","0","0","0","0","0","0",
                           "0","0","0","0","0","0","0","0","0","0">>
      [] OTHER -> <<"N","o","n","e">>

(***************************************************************************)
(* Step 1: the timestamp (lines 55-59)                                     *)
(***************************************************************************)
DigitValue(c) == (CHOOSE i \in 1..10 : Digits[i] = c) - 1

IsDigit(c) == \E i \in 1..10 : Digits[i] = c

RECURSIVE DigitsToNat(_)
DigitsToNat(s) ==
    IF s = <<>> THEN 0
    ELSE 10 * DigitsToNat(Slice(s, 1, Len(s) - 1)) + DigitValue(s[Len(s)])

\* int(str): surrounding whitespace, an optional sign, decimal digits that
\* single underscores may separate; anything else is a ValueError
ParseInt(s) ==
    LET body   == Strip(s)
        signed == body # <<>> /\ body[1] \in {"+", "-"}
        digs   == IF signed THEN Tail(body) ELSE body
        plain  == SelectSeq(digs, LAMBDA c : c # "_")
        ok     == /\ digs # <<>>
                  /\ \A i \in 1..Len(digs) : IsDigit(digs[i]) \/ digs[i] = "_"
                  /\ digs[1] # "_" /\ digs[Len(digs)] # "_"
                  /\ \A i \in 1..(Len(digs) - 1) : ~(digs[i] = "_" /\ digs[i + 1] = "_")
    IN  IF ok
        THEN [ok |-> TRUE,
              n |-> IF signed /\ body[1] = "-" THEN -DigitsToNat(plain)
                    ELSE DigitsToNat(plain)]
        ELSE [ok |-> FALSE, n |-> 0]

\* int(msg["date_unixtime"]) then datetime.fromtimestamp(timestamp, utc).
\* "skip": ValueError or TypeError, caught at line 58.  "raise": OverflowError
\* (or OSError), which line 58 does not catch.
ParseTimestamp(v) ==
    CASE v.t = "int" -> [kind |-> "ok", n |-> v.n]
      [] v.t = "str" -> IF ParseInt(v.s).ok
                        THEN [kind |-> "ok", n |-> ParseInt(v.s).n]
                        ELSE [kind |-> "skip", n |-> 0]
      [] v.t = "yearout" -> [kind |-> "skip", n |-> 0]
      [] v.t = "huge" -> [kind |-> "raise", n |-> 0]
      [] OTHER -> [kind |-> "skip", n |-> 0]

(***************************************************************************)
(* The body text (lines 66-77)                                             *)
(***************************************************************************)
\* A body is [t, s, items]: t = "str" (characters in s), "list" (items),
\* "missing" (no "text" key: msg.get gives "") or "other" (any other value).
\* A list item is [kind, text]: kind "dict" (text is its "text" value,
\* Missing when it has none), "str" (text is the str) or "other".
TextStr(s) == [t |-> "str", s |-> s, items |-> <<>>]

TextList(items) == [t |-> "list", s |-> <<>>, items |-> items]

TextMissing == [t |-> "missing", s |-> <<>>, items |-> <<>>]

TextOther == [t |-> "other", s |-> <<>>, items |-> <<>>]

NL == <<"\n">>

RECURSIVE JoinItems(_)
JoinItems(items) ==
    IF items = <<>> THEN <<>>
    ELSE LET item == Head(items)
             piece == CASE item.kind = "dict" /\ item.text.t # "missing"
                              -> PyStr(item.text) \o NL
                        [] item.kind = "str" -> item.text.s \o NL
                        [] OTHER -> <<>>
         IN  piece \o JoinItems(Tail(items))

\* [ok |-> FALSE] is the "continue" of line 77
BuildTextContent(raw_text) ==
    CASE raw_text.t = "list" -> [ok |-> TRUE, s |-> JoinItems(raw_text.items)]
      [] raw_text.t = "str" -> [ok |-> TRUE, s |-> raw_text.s]
      [] raw_text.t = "missing" -> [ok |-> TRUE, s |-> <<>>]
      [] OTHER -> [ok |-> FALSE, s |-> <<>>]

(***************************************************************************)
(* Step 2: the status (lines 84-98)                                        *)
(***************************************************************************)
IS_NOW_UP == <<"i","s"," ","n","o","w"," ","U","P">>

IS_NOW_DOWN == <<"i","s"," ","n","o","w"," ","D","O","W","N">>

IS_STILL_DOWN == <<"i","s"," ","s","t","i","l","l"," ","D","O","W","N">>

\* An entity is [isdict, type, text]: type is its "type" value, text a value
\* (Missing when the entity has no "text" key).
EntityText(entity) == IF entity.text.t = "missing" THEN Str(<<>>) ELSE entity.text

\* the if/elif chain of lines 87-97 on one bold text: "UP", "DOWN" or "none"
StatusOfBold(text) ==
    IF Contains(text, IS_NOW_UP) THEN "UP"
    ELSE IF Contains(text, IS_NOW_DOWN) THEN "DOWN"
    ELSE IF Contains(text, IS_STILL_DOWN) THEN "DOWN"
    ELSE "none"

\* The scan of the entity list: [kind, status, bold].  kind "raise" is the
\* TypeError of `"is now UP" in current_bold_text` on a text that is no str.
BoldResult(status, text, rest) ==
    IF status # "none" THEN [kind |-> "ok", status |-> status, bold |-> text]
    ELSE rest

RECURSIVE DetermineStatus(_)
DetermineStatus(text_entities) ==
    IF text_entities = <<>> THEN [kind |-> "ok", status |-> "none", bold |-> <<>>]
    ELSE IF Head(text_entities).isdict /\ Head(text_entities).type = "bold"
         THEN IF EntityText(Head(text_entities)).t # "str"
              THEN [kind |-> "raise", status |-> "none", bold |-> <<>>]
              ELSE BoldResult(StatusOfBold(EntityText(Head(text_entities)).s),
                              EntityText(Head(text_entities)).s,
                              DetermineStatus(Tail(text_entities)))
         ELSE DetermineStatus(Tail(text_entities))

(***************************************************************************)
(* Step 3a: title_regex (lines 41-43, 102-107)                             *)
(***************************************************************************)
\* one of the three phrases starts at p, letter case ignored
PhraseAt(s, p) ==
    \/ LitAtIgnoreCase(s, p, IS_NOW_UP)
    \/ LitAtIgnoreCase(s, p, IS_NOW_DOWN)
    \/ LitAtIgnoreCase(s, p, IS_STILL_DOWN)

\* ^(.*?)\s+(?:...) succeeds with group 1 = s[1..i]: no newline in the
\* group, then one or more whitespace characters, then a phrase
TitleGroupEnds(s) ==
    {i \in 0..Len(s) :
        /\ \A k \in 1..i : s[k] # "\n"
        /\ \E j \in (i + 1)..Len(s) :
              /\ \A k \in (i + 1)..j : IsSpace(s[k])
              /\ PhraseAt(s, j + 1)}

\* the lazy group takes the shortest prefix that works
ShortestGroup(s, ends) ==
    IF ends = {} THEN [ok |-> FALSE, g1 |-> <<>>]
    ELSE [ok |-> TRUE, g1 |-> Slice(s, 1, Min(ends))]

\* title_regex.match(s): [ok, g1]
TitleMatch(s) == ShortestGroup(s, TitleGroupEnds(s))

(***************************************************************************)
(* Step 3b: target_regex (lines 37-39, 110-115)                            *)
(***************************************************************************)
TARGET == <<"T","a","r","g","e","t",":">>

Q_TYPE == <<"\"","t","y","p","e","\"",":">>

Q_LINK == <<"\"","l","i","n","k","\"",",">>

Q_TEXT == <<"\"","t","e","x","t","\"",":">>

\* "([^"]+)" with the opening quote at c: the captured text, <<>> when
\* there is no match (a capture is never empty)
QuotedAt(s, c) ==
    LET quotes == {q \in (c + 1)..Len(s) : s[q] = "\""}
    IN  IF ~LitAt(s, c, <<"\"">>) \/ quotes = {} THEN <<>>
        ELSE Slice(s, c + 1, Min(quotes) - 1)

\* "text":\s*"([^"]+)" at b
TextPartAt(s, b) ==
    IF LitAt(s, b, Q_TEXT) THEN QuotedAt(s, SkipSpaces(s, b + Len(Q_TEXT))) ELSE <<>>

\* "link",\s*"text":\s*"([^"]+)" at a
LinkPartAt(s, a) ==
    IF LitAt(s, a, Q_LINK) THEN TextPartAt(s, SkipSpaces(s, a + Len(Q_LINK))) ELSE <<>>

\* "type":\s*"link",\s*"text":\s*"([^"]+)" at i
LinkPatternAt(s, i) ==
    IF LitAt(s, i, Q_TYPE) THEN LinkPartAt(s, SkipSpaces(s, i + Len(Q_TYPE))) ELSE <<>>

\* the lazy .*? (no newline) takes the shortest stretch from q after which
\* the link pattern matches; captures[i] is the capture of the pattern at i
ShortestStretch(s, q, captures) ==
    LET starts == {i \in DOMAIN captures :
                      /\ \A k \in q..(i - 1) : s[k] # "\n"
                      /\ captures[i] # <<>>}
    IN  IF starts = {} THEN <<>> ELSE captures[Min(starts)]

\* first alternative at q: .*?"type":\s*"link",\s*"text":\s*"([^"]+)"
LinkAlternative(s, q) ==
    ShortestStretch(s, q, [i \in q..Len(s) |-> LinkPatternAt(s, i)])

\* second alternative at q: ([^\n]+), greedy
PlainAlternative(s, q) ==
    LET stops == {e \in q..(Len(s) + 1) : e = Len(s) + 1 \/ s[e] = "\n"}
    IN  IF q > Len(s) THEN <<>> ELSE Slice(s, q, Min(stops) - 1)

NoMatch == [ok |-> FALSE, g1 |-> <<>>, g2 |-> <<>>]

\* the link alternative is tried before the plain one: [ok, g1, g2]
FirstAlternative(link, plain) ==
    IF link # <<>> THEN [ok |-> TRUE, g1 |-> link, g2 |-> <<>>]
    ELSE IF plain # <<>> THEN [ok |-> TRUE, g1 |-> <<>>, g2 |-> plain]
    ELSE NoMatch

AlternativesAt(s, q) == FirstAlternative(LinkAlternative(s, q), PlainAlternative(s, q))

\* \s* is greedy and gives back one character at a time: the match is the
\* one after the longest run of whitespace that lets an alternative match
LongestSpaces(alternatives) ==
    LET ok == {q \in DOMAIN alternatives : alternatives[q].ok}
    IN  IF ok = {} THEN NoMatch ELSE alternatives[Max(ok)]

\* \s*(?:...) from `from`, where the whitespace run ends at `to`
AfterLabel(s, from, to) == LongestSpaces([q \in from..to |-> AlternativesAt(s, q)])

\* the match that starts with "Target:" at p
TargetMatchAt(s, p) ==
    IF LitAt(s, p, TARGET)
    THEN AfterLabel(s, p + Len(TARGET), SkipSpaces(s, p + Len(TARGET)))
    ELSE NoMatch

Leftmost(matches) ==
    LET hits == {p \in DOMAIN matches : matches[p].ok}
    IN  IF hits = {} THEN NoMatch ELSE matches[Min(hits)]

\* target_regex.search(s): the match at the leftmost position that has one
TargetSearch(s) == Leftmost([p \in 1..Len(s) |-> TargetMatchAt(s, p)])

(***************************************************************************)
(* Step 3: the service name, three methods in order (lines 100-127)        *)
(***************************************************************************)
\* `target` is [none, s]: None, or a str
TargetNone == [none |-> TRUE, s |-> <<>>]

TargetStr(s) == [none |-> FALSE, s |-> s]

\* lines 104-107
TitleTarget(target, title_match) ==
    IF title_match.ok THEN TargetStr(Strip(title_match.g1)) ELSE target

\* lines 102-107; status is "UP", "DOWN" or "none"
Method1(target, status, bold_text_content) ==
    IF status # "none" /\ bold_text_content # <<>>
    THEN TitleTarget(target, TitleMatch(bold_text_content))
    ELSE target

\* line 113: match.group(1) or match.group(2)
GroupOneOrTwo(match) == IF match.g1 # <<>> THEN match.g1 ELSE match.g2

\* lines 114-115
StripIfAny(target) == IF target # <<>> THEN Strip(target) ELSE target

\* lines 112-115
TargetLineTarget(target, match) ==
    IF match.ok THEN TargetStr(StripIfAny(GroupOneOrTwo(match))) ELSE target

\* the Target line consulted without the test `target is None`
Method2_IgnoresTitle(target, status, text_content) ==
    IF status # "none"
    THEN TargetLineTarget(target, TargetSearch(text_content))
    ELSE target

\* lines 110-115
Method2(target, status, text_content) ==
    IF target.none /\ status # "none"
    THEN TargetLineTarget(target, TargetSearch(text_content))
    ELSE target

\* the test of lines 122-125 on a link text
SuitableLink(text) == Contains(text, <<".">>) /\ ~Contains(text, <<" ">>)

\* the loop of lines 119-127: [kind, target]; kind "raise" is the TypeError
\* of `"." in potential_target_text` on a text that is no str
RECURSIVE FirstSuitableLink(_)
FirstSuitableLink(text_entities) ==
    IF text_entities = <<>> THEN [kind |-> "ok", target |-> TargetNone]
    ELSE IF Head(text_entities).isdict /\ Head(text_entities).type = "link"
         THEN IF EntityText(Head(text_entities)).t # "str"
              THEN [kind |-> "raise", target |-> TargetNone]
              ELSE IF SuitableLink(EntityText(Head(text_entities)).s)
                   THEN [kind |-> "ok",
                         target |-> TargetStr(Strip(EntityText(Head(text_entities)).s))]
                   ELSE FirstSuitableLink(Tail(text_entities))
         ELSE FirstSuitableLink(Tail(text_entities))

\* lines 118-127
Method3(target, status, text_entities) ==
    IF target.none /\ status # "none"
    THEN FirstSuitableLink(text_entities)
    ELSE [kind |-> "ok", target |-> target]

\* the three methods in the order of the code: [kind, target]
ResolveTarget(status, bold_text_content, text_content, text_entities) ==
    Method3(Method2(Method1(TargetNone, status, bold_text_content), status, text_content),
            status, text_entities)

(***************************************************************************)
(* Step 4: clean-up (lines 130-136)                                        *)
(***************************************************************************)
\* target.rstrip("/"), then re.sub(r"\s+", " ", ..).strip()
Normalize(target) == Strip(CollapseSpaces(RStripSlash(target)))

Event(service, status, time) == [service |-> service, status |-> status, time |-> time]

NoEvent == Event(<<>>, "none", 0)

\* what one pass of the loop does: "skip" (nothing appended), "event" (one
\* event appended) or "raise" (an exception leaves extract_events)
Skip == [kind |-> "skip", event |-> NoEvent]

Raise == [kind |-> "raise", event |-> NoEvent]

\* lines 135-136
AppendIfNamed(service, status, timestamp) ==
    IF service # <<>>
    THEN [kind |-> "event", event |-> Event(service, status, timestamp)]
    ELSE Skip

\* lines 130-136
CleanUpAndStore(target, status, timestamp) ==
    IF ~target.none /\ target.s # <<>> /\ status # "none"
    THEN AppendIfNamed(Normalize(target.s), status, timestamp)
    ELSE Skip

(***************************************************************************)
(* One pass of the loop over messages (lines 45-136)                       *)
(***************************************************************************)
\* A message is [isdict, from, text_entities, date_unixtime, text];
\* text_entities is [present, islist, list], date_unixtime a value (Missing
\* when the key is absent), text a body.

\* lines 47-53
FitsExpectedFormat(msg) ==
    /\ msg.isdict
    /\ msg.from = "HetrixTools"
    /\ msg.text_entities.present
    /\ msg.date_unixtime.t # "missing"

\* lines 100-136: resolved is the outcome of the three methods
AfterResolve(resolved, status, timestamp) ==
    IF resolved.kind = "raise" THEN Raise
    ELSE CleanUpAndStore(resolved.target, status, timestamp)

\* lines 84-136: st is the outcome of the status scan
AfterStatus(msg, timestamp, text_content, st) ==
    IF st.kind = "raise" THEN Raise
    ELSE AfterResolve(ResolveTarget(st.status, st.bold, text_content,
                                    msg.text_entities.list),
                      st.status, timestamp)

\* lines 66-136: text is the outcome of building the body text
AfterText(msg, timestamp, text) ==
    IF ~text.ok THEN Skip
    ELSE IF ~msg.text_entities.islist THEN Skip
    ELSE AfterStatus(msg, timestamp, text.s, DetermineStatus(msg.text_entities.list))

\* lines 55-136: ts is the outcome of parsing the timestamp
AfterTimestamp(msg, ts) ==
    IF ts.kind = "raise" THEN Raise
    ELSE IF ts.kind = "skip" THEN Skip
    ELSE AfterText(msg, ts.n, BuildTextContent(msg.text))

\* the body of the loop
ProcessMessage(msg) ==
    IF ~FitsExpectedFormat(msg) THEN Skip
    ELSE AfterTimestamp(msg, ParseTimestamp(msg.date_unixtime))

\* one pass, given what the loop has so far: [raised, events]
LoopStep(r, events) ==
    IF r.kind = "event" THEN Append(events, r.event) ELSE events

\* the loop: [raised, events], events in message order
RECURSIVE Loop(_, _)
Loop(msgs, events) ==
    IF msgs = <<>> THEN [raised |-> FALSE, events |-> events]
    ELSE IF ProcessMessage(Head(msgs)).kind = "raise"
         THEN [raised |-> TRUE, events |-> <<>>]
         ELSE Loop(Tail(msgs), LoopStep(ProcessMessage(Head(msgs)), events))

(***************************************************************************)
(* The final sort (lines 138-139)                                          *)
(***************************************************************************)
\* a sort that is not stable: e goes before the elements of equal time
RECURSIVE InsertByTime_BeforeEqual(_, _)
InsertByTime_BeforeEqual(sorted, e) ==
    IF sorted = <<>> THEN <<e>>
    ELSE IF Head(sorted).time < e.time
         THEN <<Head(sorted)>> \o InsertByTime_BeforeEqual(Tail(sorted), e)
         ELSE <<e>> \o sorted

\* e inserted after every element whose time is <= e.time
RECURSIVE InsertByTime(_, _)
InsertByTime(sorted, e) ==
    IF sorted = <<>> THEN <<e>>
    ELSE IF Head(sorted).time <= e.time
         THEN <<Head(sorted)>> \o InsertByTime(Tail(sorted), e)
         ELSE <<e>> \o sorted

\* list.sort(key=time): ascending and stable
RECURSIVE SortByTime(_)
SortByTime(events) ==
    IF events = <<>> THEN <<>>
    ELSE InsertByTime(SortByTime(Slice(events, 1, Len(events) - 1)),
                      events[Len(events)])

(***************************************************************************)
(* extract_events (lines 30-140)                                           *)
(***************************************************************************)
\* `messages` is [isNone, list].  The result is [raised, events]: raised
\* when an exception left the function (no list is returned then).
SortIfReturned(r) ==
    IF r.raised THEN r ELSE [raised |-> FALSE, events |-> SortByTime(r.events)]

extract_events(msgs) ==
    IF msgs.isNone THEN [raised |-> FALSE, events |-> <<>>]
    ELSE SortIfReturned(Loop(msgs.list, <<>>))

(***************************************************************************)
(* create_gantt_chart (lines 143-243)                                      *)
(***************************************************************************)
\* s.strip().rstrip('/').lower() of lines 148, 318 and 346
NormalizeSelection(s) == Lower(RStripSlash(Strip(s)))

\* line 148
SelectedServicesSetLower(selected_services) ==
    {NormalizeSelection(selected_services[i]) : i \in 1..Len(selected_services)}

\* lines 149-151
FilteredEvents(events, selected_services) ==
    SelectSeq(events,
              LAMBDA e : Lower(e.service) \in SelectedServicesSetLower(selected_services))

\* line 159, as a set: the rows of the chart (their order on the y axis,
\* sorted(...), is not modelled)
ServicesWithData(filtered_events) ==
    {filtered_events[i].service : i \in 1..Len(filtered_events)}

\* Instants on the x axis are counted in ticks of 1/50 s, the unit in
\* which `time_diff * 0.02` of a whole number of seconds is exact.
TicksPerSecond == 50

MinPaddingSeconds == 300

Ticks(time) == time * TicksPerSecond

\* lines 177-183
Padding(filtered_events) ==
    LET times == {Ticks(filtered_events[i].time) : i \in 1..Len(filtered_events)}
        time_diff == Max(times) - Min(times)
        padding == (time_diff * 2) \div 100
    IN  IF padding < Ticks(MinPaddingSeconds) THEN Ticks(MinPaddingSeconds) ELSE padding

\* line 184
PlotStartTime(filtered_events) ==
    Min({Ticks(filtered_events[i].time) : i \in 1..Len(filtered_events)})
        - Padding(filtered_events)

\* line 185
PlotEndTime(filtered_events) ==
    Max({Ticks(filtered_events[i].time) : i \in 1..Len(filtered_events)})
        + Padding(filtered_events)

\* lines 210 and 231
Colour(status) == IF status = "UP" THEN "mediumseagreen" ELSE "lightcoral"

\* one ax.barh call: the bar spans [left, left + width)
Bar(left, width, status) ==
    [left |-> left, right |-> left + width, color |-> Colour(status)]

\* the state before the first event taken to be that event's own status
InitialStatus_SameAsFirst(first_event) == first_event.status

\* lines 198-200
InitialStatus(first_event) == IF first_event.status = "UP" THEN "DOWN" ELSE "UP"

\* lines 208-223: the bar for the state before `event`, if time has progressed
BarBefore(event, last_time, last_status) ==
    IF Ticks(event.time) > last_time /\ Ticks(event.time) - last_time > 0
    THEN <<Bar(last_time, Ticks(event.time) - last_time, last_status)>>
    ELSE <<>>

\* lines 230-243: the bar from the last event to the end of the chart
BarToEnd(plot_end_time, last_time, last_status) ==
    IF plot_end_time > last_time /\ plot_end_time - last_time > 0
    THEN <<Bar(last_time, plot_end_time - last_time, last_status)>>
    ELSE <<>>

\* the loop of lines 202-227 followed by lines 230-243
RECURSIVE PlotIntervals(_, _, _, _)
PlotIntervals(service_events, last_time, last_status, plot_end_time) ==
    IF service_events = <<>> THEN BarToEnd(plot_end_time, last_time, last_status)
    ELSE LET event == Head(service_events)
         IN  BarBefore(event, last_time, last_status)
                \o PlotIntervals(Tail(service_events), Ticks(event.time),
                                 event.status, plot_end_time)

\* lines 191-243 for one row
ServiceBars(filtered_events, service) ==
    LET service_events == SelectSeq(filtered_events, LAMBDA e : e.service = service)
    IN  PlotIntervals(service_events, PlotStartTime(filtered_events),
                      InitialStatus(service_events[1]), PlotEndTime(filtered_events))

\* The chart drawn: [drawn, start, end, bars], bars a function from each
\* row's service to its bars in drawing order.  drawn is FALSE after the
\* early return of line 155.
NoChart == [drawn |-> FALSE, start |-> 0, end |-> 0, bars |-> <<>>]

create_gantt_chart(events, selected_services) ==
    LET filtered_events == FilteredEvents(events, selected_services)
    IN  IF filtered_events = <<>> THEN NoChart
        ELSE [drawn |-> TRUE,
              start |-> PlotStartTime(filtered_events),
              end |-> PlotEndTime(filtered_events),
              bars |-> [service \in ServicesWithData(filtered_events) |->
                            ServiceBars(filtered_events, service)]]

(***************************************************************************)
(* The selection flow of __main__ (lines 300-353)                          *)
(***************************************************************************)
\* line 300, as a set
AllDetectedServices(all_events) == {all_events[i].service : i \in 1..Len(all_events)}

\* line 321
DetectedServicesSetLower(all_events) ==
    {Lower(s) : s \in AllDetectedServices(all_events)}

\* lines 317-319: a dict as a sequence of [key, value] in insertion order;
\* a key met again keeps its place and takes the later value
RECURSIVE UserServicesMap(_)
UserServicesMap(services) ==
    IF services = <<>> THEN <<>>
    ELSE LET before == UserServicesMap(Slice(services, 1, Len(services) - 1))
             s == services[Len(services)]
             key == NormalizeSelection(s)
         IN  IF \E i \in 1..Len(before) : before[i].key = key
             THEN [i \in 1..Len(before) |->
                      IF before[i].key = key THEN [key |-> key, value |-> s]
                      ELSE before[i]]
             ELSE Append(before, [key |-> key, value |-> s])

\* lines 324-327
ValidServicesLower(services, all_events) ==
    {UserServicesMap(services)[i].key : i \in 1..Len(UserServicesMap(services))}
        \cap DetectedServicesSetLower(all_events)

\* lines 329-333 (line 337 prints them sorted)
InvalidServicesOriginal(services, all_events) ==
    LET map == UserServicesMap(services)
        invalid == SelectSeq(map, LAMBDA kv : kv.key \notin DetectedServicesSetLower(all_events))
    IN  [i \in 1..Len(invalid) |-> invalid[i].value]

\* lines 344-347
ServicesForCharting(services, all_events) ==
    SelectSeq(services,
              LAMBDA s : NormalizeSelection(s) \in ValidServicesLower(services, all_events))

(***************************************************************************)
(* Inputs: message records                                                 *)
(***************************************************************************)
\* bold 'a is now UP' at time 2
MsgUp ==
    [isdict |-> TRUE, from |-> "HetrixTools",
     text_entities |-> [present |-> TRUE, islist |-> TRUE, list |-> <<
        [isdict |-> TRUE, type |-> "bold", text |-> Str(<<"a"," ","i","s"," ","n","o","w"," ","U","P">>)]>>],
     date_unixtime |-> IntV(2),
     text |-> TextStr(<<"a"," ","i","s"," ","n","o","w"," ","U","P">>)]

\* bold 'B is now DOWN', timestamp the str ' 2 '
MsgDownB ==
    [isdict |-> TRUE, from |-> "HetrixTools",
     text_entities |-> [present |-> TRUE, islist |-> TRUE, list |-> <<
        [isdict |-> TRUE, type |-> "bold", text |-> Str(<<"B"," ","i","s"," ","n","o","w"," ","D","O","W","N">>)]>>],
     date_unixtime |-> Str(<<" ","2"," ">>),
     text |-> TextMissing]

\* bold 'a is still DOWN' at time 1
MsgStillDown ==
    [isdict |-> TRUE, from |-> "HetrixTools",
     text_entities |-> [present |-> TRUE, islist |-> TRUE, list |-> <<
        [isdict |-> TRUE, type |-> "bold", text |-> Str(<<"a"," ","i","s"," ","s","t","i","l","l"," ","D","O","W","N">>)]>>],
     date_unixtime |-> IntV(1),
     text |-> TextMissing]

\* bold 'a/ / is now DOWN': the name before the phrase is 'a/ /'
MsgSlashes ==
    [isdict |-> TRUE, from |-> "HetrixTools",
     text_entities |-> [present |-> TRUE, islist |-> TRUE, list |-> <<
        [isdict |-> TRUE, type |-> "bold", text |-> Str(<<"a","/"," ","/"," ","i","s"," ","n","o","w"," ","D","O","W","N">>)]>>],
     date_unixtime |-> IntV(1),
     text |-> TextMissing]

\* bold 'A  b<TAB>/ is now UP': runs of whitespace and a trailing slash
MsgSpaces ==
    [isdict |-> TRUE, from |-> "HetrixTools",
     text_entities |-> [present |-> TRUE, islist |-> TRUE, list |-> <<
        [isdict |-> TRUE, type |-> "bold", text |-> Str(<<"A"," "," ","b","\t","/"," ","i","s"," ","n","o","w"," ","U","P">>)]>>],
     date_unixtime |-> IntV(3),
     text |-> TextMissing]

\* bold ' is still DOWN' (only whitespace before the phrase) and a link 'b.c'
MsgBlankTitle ==
    [isdict |-> TRUE, from |-> "HetrixTools",
     text_entities |-> [present |-> TRUE, islist |-> TRUE, list |-> <<
        [isdict |-> TRUE, type |-> "bold", text |-> Str(<<" ","i","s"," ","s","t","i","l","l"," ","D","O","W","N">>)],[isdict |-> TRUE, type |-> "link", text |-> Str(<<"b",".","c">>)]>>],
     date_unixtime |-> IntV(1),
     text |-> TextMissing]

\* bold 'is still DOWN' (nothing before the phrase) and a link 'b.c'
MsgNoTitle ==
    [isdict |-> TRUE, from |-> "HetrixTools",
     text_entities |-> [present |-> TRUE, islist |-> TRUE, list |-> <<
        [isdict |-> TRUE, type |-> "bold", text |-> Str(<<"i","s"," ","s","t","i","l","l"," ","D","O","W","N">>)],[isdict |-> TRUE, type |-> "link", text |-> Str(<<"b",".","c">>)]>>],
     date_unixtime |-> IntV(3),
     text |-> TextMissing]

\* bold 'is now UP', body 'Target: ' with nothing after the label, a link 'b.c'
MsgBlankTarget ==
    [isdict |-> TRUE, from |-> "HetrixTools",
     text_entities |-> [present |-> TRUE, islist |-> TRUE, list |-> <<
        [isdict |-> TRUE, type |-> "bold", text |-> Str(<<"i","s"," ","n","o","w"," ","U","P">>)],[isdict |-> TRUE, type |-> "link", text |-> Str(<<"b",".","c">>)]>>],
     date_unixtime |-> IntV(2),
     text |-> TextStr(<<"T","a","r","g","e","t",":"," ">>)]

\* bold 'is now UP', body the list ['Target: ', {text: 'B.c/'}], a link 'b.c'
MsgTargetList ==
    [isdict |-> TRUE, from |-> "HetrixTools",
     text_entities |-> [present |-> TRUE, islist |-> TRUE, list |-> <<
        [isdict |-> TRUE, type |-> "bold", text |-> Str(<<"i","s"," ","n","o","w"," ","U","P">>)],[isdict |-> TRUE, type |-> "link", text |-> Str(<<"b",".","c">>)]>>],
     date_unixtime |-> IntV(1),
     text |-> TextList(<<[kind |-> "str", text |-> Str(<<"T","a","r","g","e","t",":"," ">>)],[kind |-> "dict", text |-> Str(<<"B",".","c","/">>)]>>)]

\* bold 'a is now DOWN', body 'Target: B.c', a link 'b.c': every tier has a name
MsgAllTiers ==
    [isdict |-> TRUE, from |-> "HetrixTools",
     text_entities |-> [present |-> TRUE, islist |-> TRUE, list |-> <<
        [isdict |-> TRUE, type |-> "bold", text |-> Str(<<"a"," ","i","s"," ","n","o","w"," ","D","O","W","N">>)],[isdict |-> TRUE, type |-> "link", text |-> Str(<<"b",".","c">>)]>>],
     date_unixtime |-> IntV(3),
     text |-> TextStr(<<"T","a","r","g","e","t",":"," ","B",".","c">>)]

\* bold 'is now UP', body with an embedded link fragment after 'Target:'
MsgTargetJson ==
    [isdict |-> TRUE, from |-> "HetrixTools",
     text_entities |-> [present |-> TRUE, islist |-> TRUE, list |-> <<
        [isdict |-> TRUE, type |-> "bold", text |-> Str(<<"i","s"," ","n","o","w"," ","U","P">>)]>>],
     date_unixtime |-> IntV(2),
     text |-> TextStr(<<"T","a","r","g","e","t",":"," ","\"","t","y","p","e","\"",":"," ","\"","l","i","n","k","\"",","," ","\"","t","e","x","t","\"",":"," ","\"","b",".","c","\"">>)]

\* bold 'is now UP', a link 'bc' that is not hostname-shaped: no tier gives a name
MsgNoName ==
    [isdict |-> TRUE, from |-> "HetrixTools",
     text_entities |-> [present |-> TRUE, islist |-> TRUE, list |-> <<
        [isdict |-> TRUE, type |-> "bold", text |-> Str(<<"i","s"," ","n","o","w"," ","U","P">>)],[isdict |-> TRUE, type |-> "link", text |-> Str(<<"b","c">>)]>>],
     date_unixtime |-> IntV(1),
     text |-> TextStr(<<>>)]

\* a non-dict entity, bold 'a is now up' (lower case), bold 'B is now UP', bold 'a is now DOWN'
MsgSecondBold ==
    [isdict |-> TRUE, from |-> "HetrixTools",
     text_entities |-> [present |-> TRUE, islist |-> TRUE, list |-> <<
        [isdict |-> FALSE, type |-> "", text |-> Missing],[isdict |-> TRUE, type |-> "bold", text |-> Str(<<"a"," ","i","s"," ","n","o","w"," ","u","p">>)],[isdict |-> TRUE, type |-> "bold", text |-> Str(<<"B"," ","i","s"," ","n","o","w"," ","U","P">>)],[isdict |-> TRUE, type |-> "bold", text |-> Str(<<"a"," ","i","s"," ","n","o","w"," ","D","O","W","N">>)]>>],
     date_unixtime |-> IntV(1),
     text |-> TextMissing]

\* bold 'doccano is now UP' at time 3
MsgDoccano ==
    [isdict |-> TRUE, from |-> "HetrixTools",
     text_entities |-> [present |-> TRUE, islist |-> TRUE, list |-> <<
        [isdict |-> TRUE, type |-> "bold", text |-> Str(<<"d","o","c","c","a","n","o"," ","i","s"," ","n","o","w"," ","U","P">>)]>>],
     date_unixtime |-> IntV(3),
     text |-> TextMissing]

\* a recognisable message from another sender
MsgOtherSender ==
    [isdict |-> TRUE, from |-> "Other",
     text_entities |-> [present |-> TRUE, islist |-> TRUE, list |-> <<
        [isdict |-> TRUE, type |-> "bold", text |-> Str(<<"a"," ","i","s"," ","n","o","w"," ","U","P">>)]>>],
     date_unixtime |-> IntV(1),
     text |-> TextMissing]

\* no text_entities key
MsgNoEntities ==
    [isdict |-> TRUE, from |-> "HetrixTools",
     text_entities |-> [present |-> FALSE, islist |-> FALSE, list |-> <<>>],
     date_unixtime |-> IntV(1),
     text |-> TextStr(<<"a"," ","i","s"," ","n","o","w"," ","U","P">>)]

\* no date_unixtime key
MsgNoDate ==
    [isdict |-> TRUE, from |-> "HetrixTools",
     text_entities |-> [present |-> TRUE, islist |-> TRUE, list |-> <<
        [isdict |-> TRUE, type |-> "bold", text |-> Str(<<"a"," ","i","s"," ","n","o","w"," ","U","P">>)]>>],
     date_unixtime |-> Missing,
     text |-> TextMissing]

\* date_unixtime 'abc'
MsgBadDate ==
    [isdict |-> TRUE, from |-> "HetrixTools",
     text_entities |-> [present |-> TRUE, islist |-> TRUE, list |-> <<
        [isdict |-> TRUE, type |-> "bold", text |-> Str(<<"a"," ","i","s"," ","n","o","w"," ","U","P">>)]>>],
     date_unixtime |-> Str(<<"a","b","c">>),
     text |-> TextMissing]

\* a body that is neither str nor list
MsgBadText ==
    [isdict |-> TRUE, from |-> "HetrixTools",
     text_entities |-> [present |-> TRUE, islist |-> TRUE, list |-> <<
        [isdict |-> TRUE, type |-> "bold", text |-> Str(<<"a"," ","i","s"," ","n","o","w"," ","U","P">>)]>>],
     date_unixtime |-> IntV(1),
     text |-> TextOther]

\* a record that is no dict
MsgNotDict ==
    [isdict |-> FALSE, from |-> "",
     text_entities |-> [present |-> FALSE, islist |-> FALSE, list |-> <<>>],
     date_unixtime |-> Missing,
     text |-> TextMissing]

\* date_unixtime 10**20, outside the platform time_t range
MsgHugeDate ==
    [isdict |-> TRUE, from |-> "HetrixTools",
     text_entities |-> [present |-> TRUE, islist |-> TRUE, list |-> <<
        [isdict |-> TRUE, type |-> "bold", text |-> Str(<<"a"," ","i","s"," ","n","o","w"," ","U","P">>)]>>],
     date_unixtime |-> HugeV,
     text |-> TextMissing]

\* a bold entity without text, then a bold entity whose text is null
MsgNullBold ==
    [isdict |-> TRUE, from |-> "HetrixTools",
     text_entities |-> [present |-> TRUE, islist |-> TRUE, list |-> <<
        [isdict |-> TRUE, type |-> "bold", text |-> Missing],[isdict |-> TRUE, type |-> "bold", text |-> NoneV]>>],
     date_unixtime |-> IntV(1),
     text |-> TextMissing]

MessagePool ==
    {MsgUp, MsgDownB, MsgStillDown, MsgSlashes, MsgSpaces, MsgBlankTitle, MsgNoTitle,
     MsgBlankTarget, MsgTargetList, MsgAllTiers, MsgTargetJson, MsgNoName,
     MsgSecondBold, MsgDoccano, MsgOtherSender, MsgNoEntities, MsgNoDate, MsgBadDate,
     MsgBadText, MsgNotDict, MsgHugeDate, MsgNullBold}

\* the messages of the runs that exercise the selection flow and the chart
\* bold 'a is now UP' at time 1
ChartUp1 ==
    [isdict |-> TRUE, from |-> "HetrixTools",
     text_entities |-> [present |-> TRUE, islist |-> TRUE, list |-> <<
        [isdict |-> TRUE, type |-> "bold", text |-> Str(<<"a"," ","i","s"," ","n","o","w"," ","U","P">>)]>>],
     date_unixtime |-> IntV(1),
     text |-> TextMissing]

\* bold 'a is now DOWN' at time 1
ChartDown1 ==
    [isdict |-> TRUE, from |-> "HetrixTools",
     text_entities |-> [present |-> TRUE, islist |-> TRUE, list |-> <<
        [isdict |-> TRUE, type |-> "bold", text |-> Str(<<"a"," ","i","s"," ","n","o","w"," ","D","O","W","N">>)]>>],
     date_unixtime |-> IntV(1),
     text |-> TextMissing]

\* bold 'a is still DOWN' at time 2
ChartDown2 ==
    [isdict |-> TRUE, from |-> "HetrixTools",
     text_entities |-> [present |-> TRUE, islist |-> TRUE, list |-> <<
        [isdict |-> TRUE, type |-> "bold", text |-> Str(<<"a"," ","i","s"," ","s","t","i","l","l"," ","D","O","W","N">>)]>>],
     date_unixtime |-> IntV(2),
     text |-> TextMissing]

\* bold 'A is now UP' at time 20000
ChartUpLate ==
    [isdict |-> TRUE, from |-> "HetrixTools",
     text_entities |-> [present |-> TRUE, islist |-> TRUE, list |-> <<
        [isdict |-> TRUE, type |-> "bold", text |-> Str(<<"A"," ","i","s"," ","n","o","w"," ","U","P">>)]>>],
     date_unixtime |-> IntV(20000),
     text |-> TextMissing]

\* bold 'a/ / is now UP' at time 2
ChartSlash ==
    [isdict |-> TRUE, from |-> "HetrixTools",
     text_entities |-> [present |-> TRUE, islist |-> TRUE, list |-> <<
        [isdict |-> TRUE, type |-> "bold", text |-> Str(<<"a","/"," ","/"," ","i","s"," ","n","o","w"," ","U","P">>)]>>],
     date_unixtime |-> IntV(2),
     text |-> TextMissing]

\* a message from another sender
ChartOther ==
    [isdict |-> TRUE, from |-> "Other",
     text_entities |-> [present |-> TRUE, islist |-> TRUE, list |-> <<
        [isdict |-> TRUE, type |-> "bold", text |-> Str(<<"a"," ","i","s"," ","n","o","w"," ","U","P">>)]>>],
     date_unixtime |-> IntV(1),
     text |-> TextMissing]

ChartMessagePool == {ChartUp1, ChartDown1, ChartDown2, ChartUpLate, ChartSlash, ChartOther}

(***************************************************************************)
(* Inputs: services_to_plot                                                *)
(***************************************************************************)
\* line 286
DefaultServices ==
    << <<"d","o","c","c","a","n","o">>,
       <<"s","t","a","f","f","c","o","u","n","t","e","r">> >>

\* the requests "a", "a/", "zz" and " ZZ/"
SelectionPool == { <<"a">>, <<"a","/">>, <<"z","z">>, <<" ","Z","Z","/">> }

\* the requests of the runs that exercise the chart: none, ["a/"], ["zz", "a"]
ChartSelections == { <<>>, << <<"a","/">> >>, << <<"z","z">>, <<"a">> >> }

MaxMsgs == 2

MaxChartMsgs == 3

MaxSelectMsgs == 2

MaxSelected == 2

SeqsUpTo(S, n) == UNION {[1..k -> S] : k \in 0..n}

MessagesNone == [isNone |-> TRUE, list |-> <<>>]

MessageList(list) == [isNone |-> FALSE, list |-> list]

(***************************************************************************)
(* The program as a state machine                                          *)
(***************************************************************************)
VARIABLES
    messages,                   \* the argument of extract_events: [isNone, list]
    services_to_plot,           \* line 286
    pc,                         \* "start", "extracted", "raised", "chart", "end"
    all_events,                 \* what extract_events gave: [raised, events]
    invalid_services_original,  \* the entries the warning of line 336 lists
    services_for_charting,      \* the second argument of the call of line 348
    report,                     \* which closing message was printed
    chart                       \* what create_gantt_chart drew

vars == <<messages, services_to_plot, pc, all_events, invalid_services_original,
          services_for_charting, report, chart>>

InitRest ==
    /\ pc = "start"
    /\ all_events = [raised |-> FALSE, events |-> <<>>]
    /\ invalid_services_original = <<>>
    /\ services_for_charting = <<>>
    /\ report = "none"
    /\ chart = NoChart

\* any list of at most MaxMsgs records of MessagePool, or None; the
\* services of line 286
Init ==
    /\ messages \in {MessagesNone} \cup {MessageList(l) : l \in SeqsUpTo(MessagePool, MaxMsgs)}
    /\ services_to_plot = DefaultServices
    /\ InitRest

\* at most MaxChartMsgs chart messages, a request of ChartSelections
InitChart ==
    /\ messages \in {MessageList(l) : l \in SeqsUpTo(ChartMessagePool, MaxChartMsgs)}
    /\ services_to_plot \in ChartSelections
    /\ InitRest

\* at most MaxSelectMsgs chart messages, any list of at most MaxSelected
\* requests of SelectionPool
InitSelect ==
    /\ messages \in {MessageList(l) : l \in SeqsUpTo(ChartMessagePool, MaxSelectMsgs)}
    /\ services_to_plot \in SeqsUpTo(SelectionPool, MaxSelected)
    /\ InitRest

\* the call extract_events(messages) (line 294; __main__ makes it only for a
\* non-empty list, the function itself takes any input)
ExtractEvents ==
    /\ pc = "start"
    /\ all_events' = extract_events(messages)
    /\ pc' = IF all_events'.raised THEN "raised" ELSE "extracted"
    /\ UNCHANGED <<messages, services_to_plot, invalid_services_original,
                   services_for_charting, report, chart>>

\* line 293: nothing follows for a missing or empty message list
MainNoMessages ==
    /\ pc = "extracted"
    /\ messages.isNone \/ messages.list = <<>>
    /\ pc' = "end"
    /\ UNCHANGED <<messages, services_to_plot, all_events, invalid_services_original,
                   services_for_charting, report, chart>>

\* lines 296-297
MainNoEvents ==
    /\ pc = "extracted"
    /\ ~messages.isNone /\ messages.list # <<>>
    /\ all_events.events = <<>>
    /\ report' = "no_events"
    /\ pc' = "end"
    /\ UNCHANGED <<messages, services_to_plot, all_events, invalid_services_original,
                   services_for_charting, chart>>

\* lines 298-353 up to the call of create_gantt_chart
MainSelect ==
    /\ pc = "extracted"
    /\ ~messages.isNone /\ messages.list # <<>>
    /\ all_events.events # <<>>
    /\ IF services_to_plot = <<>>
       THEN /\ report' = "no_services"
            /\ pc' = "end"
            /\ UNCHANGED <<invalid_services_original, services_for_charting>>
       ELSE /\ invalid_services_original' =
                   InvalidServicesOriginal(services_to_plot, all_events.events)
            /\ IF ValidServicesLower(services_to_plot, all_events.events) # {}
               THEN /\ services_for_charting' =
                           ServicesForCharting(services_to_plot, all_events.events)
                    /\ pc' = "chart"
                    /\ UNCHANGED report
               ELSE /\ report' = "none_found"
                    /\ pc' = "end"
                    /\ UNCHANGED services_for_charting
    /\ UNCHANGED <<messages, services_to_plot, all_events, chart>>

\* line 348: create_gantt_chart(all_events, services_for_charting, ...)
CreateGanttChart ==
    /\ pc = "chart"
    /\ chart' = create_gantt_chart(all_events.events, services_for_charting)
    /\ report' = IF chart'.drawn THEN "chart_saved" ELSE "no_filtered_events"
    /\ pc' = "end"
    /\ UNCHANGED <<messages, services_to_plot, all_events, invalid_services_original,
                   services_for_charting>>

Next ==
    \/ ExtractEvents
    \/ MainNoMessages
    \/ MainNoEvents
    \/ MainSelect
    \/ CreateGanttChart

Spec == Init /\ [][Next]_vars

SpecChart == InitChart /\ [][Next]_vars

SpecSelect == InitSelect /\ [][Next]_vars

(***************************************************************************)
(* Vocabulary of the properties                                            *)
(***************************************************************************)
Range(seq) == {seq[i] : i \in 1..Len(seq)}

Count(seq, x) == Cardinality({i \in 1..Len(seq) : seq[i] = x})

\* extract_events has returned a list
Returned == pc # "start" /\ ~all_events.raised

\* the message gets as far as the search for a service name: it fits the
\* expected format, its timestamp and body are usable and a bold entity
\* holds a recognised phrase
HasStatus(msg) ==
    /\ FitsExpectedFormat(msg)
    /\ ParseTimestamp(msg.date_unixtime).kind = "ok"
    /\ BuildTextContent(msg.text).ok
    /\ msg.text_entities.islist
    /\ DetermineStatus(msg.text_entities.list).kind = "ok"
    /\ DetermineStatus(msg.text_entities.list).status # "none"

StatusOf(msg) == DetermineStatus(msg.text_entities.list).status

BoldOf(msg) == DetermineStatus(msg.text_entities.list).bold

TimeOf(msg) == ParseTimestamp(msg.date_unixtime).n

TextOf(msg) == BuildTextContent(msg.text).s

ResolvedOf(msg) ==
    ResolveTarget(StatusOf(msg), BoldOf(msg), TextOf(msg), msg.text_entities.list)

\* the texts of the hostname-shaped link entities, in entity order
SuitableLinks(msg) ==
    SelectSeq(msg.text_entities.list,
              LAMBDA e : e.isdict /\ e.type = "link" /\ e.text.t = "str"
                         /\ SuitableLink(e.text.s))

(***************************************************************************)
(* C1                                                                      *)
(***************************************************************************)
C1_Eligible(msg) ==
    /\ HasStatus(msg)
    /\ ResolvedOf(msg).kind = "ok"
    /\ ~ResolvedOf(msg).target.none
    /\ Normalize(ResolvedOf(msg).target.s) # <<>>

C1_Expected(msg) ==
    Event(Normalize(ResolvedOf(msg).target.s), StatusOf(msg), TimeOf(msg))

C1_ExpectedCount(list, e) ==
    Cardinality({i \in 1..Len(list) : C1_Eligible(list[i]) /\ C1_Expected(list[i]) = e})

\* C1: for every input sequence extract_events returns a list that holds
\* exactly one event for each message that passes the structural
\* preconditions, has a bold entity with a recognised phrase and has a
\* resolvable service name, and no other event; the event carries the
\* status of the first such bold entity, the normalized resolved name and
\* the message's timestamp.
C1_OneEventPerEligibleMessage ==
    (pc # "start" /\ ~messages.isNone) =>
        /\ ~all_events.raised
        /\ \A i \in 1..Len(messages.list) :
              C1_Eligible(messages.list[i]) =>
                  Count(all_events.events, C1_Expected(messages.list[i]))
                      = C1_ExpectedCount(messages.list, C1_Expected(messages.list[i]))
        /\ \A e \in Range(all_events.events) : C1_ExpectedCount(messages.list, e) > 0

(***************************************************************************)
(* C2                                                                      *)
(***************************************************************************)
\* the events in the order the loop appended them
EmittedInOrder == Loop(messages.list, <<>>).events

\* C2: the returned list is sorted non-decreasing by time, and events of
\* equal time keep the order in which their messages were extracted.
C2_SortedAndStable ==
    (Returned /\ ~messages.isNone) =>
        /\ \A i \in 1..(Len(all_events.events) - 1) :
              all_events.events[i].time <= all_events.events[i + 1].time
        /\ \A t \in {e.time : e \in Range(EmittedInOrder) \cup Range(all_events.events)} :
              SelectSeq(all_events.events, LAMBDA e : e.time = t)
                  = SelectSeq(EmittedInOrder, LAMBDA e : e.time = t)

\* three events were extracted out of time order, two different ones of
\* them at the same time
C2_Witness ==
    /\ Returned /\ ~messages.isNone
    /\ Len(all_events.events) = 3
    /\ all_events.events # EmittedInOrder
    /\ \E i \in 1..2 :
          /\ all_events.events[i].time = all_events.events[i + 1].time
          /\ all_events.events[i] # all_events.events[i + 1]

(***************************************************************************)
(* C3                                                                      *)
(***************************************************************************)
TitleParses(msg) == HasStatus(msg) /\ TitleMatch(BoldOf(msg)).ok

TitleName(msg) == Normalize(Strip(TitleMatch(BoldOf(msg)).g1))

\* C3: whenever the title parse of the matched bold entity succeeds, the
\* service name of the message's event comes from the title parse: the
\* event carries the normalized title name, and when that name is empty the
\* message yields no event (the Target line and the links are not used).
C3_TitleTakesPrecedence ==
    (Returned /\ ~messages.isNone) =>
        \A i \in 1..Len(messages.list) :
            TitleParses(messages.list[i]) =>
                IF TitleName(messages.list[i]) = <<>>
                THEN ProcessMessage(messages.list[i]).kind = "skip"
                ELSE /\ ProcessMessage(messages.list[i]).kind = "event"
                     /\ ProcessMessage(messages.list[i]).event.service
                            = TitleName(messages.list[i])
                     /\ Event(TitleName(messages.list[i]), StatusOf(messages.list[i]),
                              TimeOf(messages.list[i])) \in Range(all_events.events)

\* a message whose title, Target line and link each give a name, the three
\* not all equal, and the event with the title's name was returned
C3_Witness ==
    /\ Returned /\ ~messages.isNone
    /\ \E i \in 1..Len(messages.list) :
          /\ TitleParses(messages.list[i])
          /\ TargetSearch(TextOf(messages.list[i])).ok
          /\ Normalize(Strip(GroupOneOrTwo(TargetSearch(TextOf(messages.list[i])))))
                 \notin {<<>>, TitleName(messages.list[i])}
          /\ SuitableLinks(messages.list[i]) # <<>>
          /\ Normalize(SuitableLinks(messages.list[i])[1].text.s)
                 \notin {<<>>, TitleName(messages.list[i])}
          /\ Event(TitleName(messages.list[i]), StatusOf(messages.list[i]),
                   TimeOf(messages.list[i])) \in Range(all_events.events)

(***************************************************************************)
(* C4                                                                      *)
(***************************************************************************)
FullyNormalized(service) ==
    /\ service # <<>>
    /\ ~IsSpace(service[1])
    /\ ~IsSpace(service[Len(service)])
    /\ \A i \in 1..Len(service) : IsSpace(service[i]) => service[i] = " "
    /\ \A i \in 1..(Len(service) - 1) : ~(service[i] = " " /\ service[i + 1] = " ")
    /\ service[Len(service)] # "/"

\* C4: every emitted service name is fully normalized (non-empty, no
\* surrounding whitespace, no whitespace but single spaces, no trailing
\* "/"), and normalizing it again returns the same string.
C4_ServiceIsNormalized ==
    Returned =>
        \A e \in Range(all_events.events) :
            FullyNormalized(e.service) /\ Normalize(e.service) = e.service

(***************************************************************************)
(* C5                                                                      *)
(***************************************************************************)
\* C5: no exception leaves extract_events, whatever the records are: a list
\* is returned, and it is empty for None and for an empty sequence.
C5_NoExceptionEscapes ==
    pc # "start" =>
        /\ ~all_events.raised
        /\ (messages.isNone \/ messages.list = <<>>) => all_events.events = <<>>

(***************************************************************************)
(* C6                                                                      *)
(***************************************************************************)
\* sender other than the expected one, no entity list, timestamp missing
\* or invalid, body of an unsupported shape
FailsStructuralPrecondition(msg) ==
    \/ ~msg.isdict
    \/ msg.from # "HetrixTools"
    \/ ~msg.text_entities.present
    \/ msg.date_unixtime.t = "missing"
    \/ ParseTimestamp(msg.date_unixtime).kind # "ok"
    \/ ~BuildTextContent(msg.text).ok

WithoutStructuralFailures(msgs) ==
    MessageList(SelectSeq(msgs.list, LAMBDA m : ~FailsStructuralPrecondition(m)))

\* C6: a message that fails a structural precondition has no effect on the
\* result: what extract_events gives for the input is what it gives for the
\* input without those messages.
C6_StructuralFailuresHaveNoEffect ==
    (pc # "start" /\ ~messages.isNone) =>
        all_events = extract_events(WithoutStructuralFailures(messages))

(***************************************************************************)
(* C8                                                                      *)
(***************************************************************************)
\* only whitespace, or nothing, precedes a recognised phrase in the text
NoNameBeforePhrase(bold) ==
    \E p \in 1..Len(bold) :
        /\ \A k \in 1..(p - 1) : IsSpace(bold[k])
        /\ LitAt(bold, p, IS_NOW_UP) \/ LitAt(bold, p, IS_NOW_DOWN)
              \/ LitAt(bold, p, IS_STILL_DOWN)

\* no "Target:" label in the body is followed by anything but whitespace
NoUsableTargetText(text) ==
    \A p \in 1..Len(text) :
        LitAt(text, p, TARGET) => \A k \in (p + Len(TARGET))..Len(text) : IsSpace(text[k])

\* C8: when the bold entity has no service name before the phrase and the
\* body has no usable text after a "Target:" label, a hostname-shaped link
\* gives the service: the message yields an event with the first such
\* link's text as its service.
C8_FallsThroughToLink ==
    (Returned /\ ~messages.isNone) =>
        \A i \in 1..Len(messages.list) :
            ( /\ HasStatus(messages.list[i])
              /\ NoNameBeforePhrase(BoldOf(messages.list[i]))
              /\ NoUsableTargetText(TextOf(messages.list[i]))
              /\ SuitableLinks(messages.list[i]) # <<>>
              /\ Normalize(SuitableLinks(messages.list[i])[1].text.s) # <<>> )
            => Event(Normalize(SuitableLinks(messages.list[i])[1].text.s),
                     StatusOf(messages.list[i]), TimeOf(messages.list[i]))
                   \in Range(all_events.events)

(***************************************************************************)
(* C7                                                                      *)
(***************************************************************************)
\* the selection flow has classified a non-empty request
Classified ==
    /\ pc \in {"chart", "end"}
    /\ all_events.events # <<>>
    /\ services_to_plot # <<>>

\* the entry, trimmed, without trailing slashes and in lower case, is the
\* lower-case form of a detected service
MatchesDetected(s) ==
    NormalizeSelection(s) \in {Lower(d) : d \in AllDetectedServices(all_events.events)}

ChartCallMade == pc = "chart" \/ report \in {"chart_saved", "no_filtered_events"}

\* C7: every requested entry that matches no detected service is in the
\* warning list, every entry that matches is passed to the chart call, no
\* entry is both, and the chart call is made exactly when some entry
\* matches (otherwise the error is reported).
C7_EveryEntryClassified ==
    Classified =>
        /\ \A s \in Range(services_to_plot) :
              /\ ~MatchesDetected(s) => s \in Range(invalid_services_original)
              /\ MatchesDetected(s) => s \in Range(services_for_charting)
              /\ ~(s \in Range(invalid_services_original)
                     /\ s \in Range(services_for_charting))
        /\ ChartCallMade <=> \E s \in Range(services_to_plot) : MatchesDetected(s)
        /\ ~ChartCallMade => report = "none_found"

(***************************************************************************)
(* C9                                                                      *)
(***************************************************************************)
Opposite(status) == IF status = "UP" THEN "DOWN" ELSE "UP"

EventsOfService(service) == SelectSeq(all_events.events, LAMBDA e : e.service = service)

\* the status in force at instant t: that of the last event, in list order,
\* among those with time <= t; before the first event, the opposite of it
StatusAt(events, t) ==
    LET before == {i \in 1..Len(events) : Ticks(events[i].time) <= t}
    IN  IF before = {} THEN Opposite(events[1].status) ELSE events[Max(before)].status

\* C9: the bars of every plotted service are disjoint, in time order and
\* cover the viewport from plot_start_time to plot_end_time without gaps;
\* no event falls inside a bar, and each bar shows the status in force at
\* its left edge.
C9_BarsTileTheViewport ==
    (pc = "end" /\ chart.drawn) =>
        \A service \in DOMAIN chart.bars :
            /\ chart.bars[service] # <<>>
            /\ chart.bars[service][1].left = chart.start
            /\ chart.bars[service][Len(chart.bars[service])].right = chart.end
            /\ \A k \in 1..Len(chart.bars[service]) :
                  /\ chart.bars[service][k].left < chart.bars[service][k].right
                  /\ k < Len(chart.bars[service]) =>
                        chart.bars[service][k].right = chart.bars[service][k + 1].left
                  /\ \A e \in Range(EventsOfService(service)) :
                        ~(chart.bars[service][k].left < Ticks(e.time)
                            /\ Ticks(e.time) < chart.bars[service][k].right)
                  /\ chart.bars[service][k].color
                        = Colour(StatusAt(EventsOfService(service),
                                          chart.bars[service][k].left))

\* a service was drawn with three bars or more, two of its events being at
\* the same time with different statuses
C9_Witness ==
    /\ pc = "end" /\ chart.drawn
    /\ \E service \in DOMAIN chart.bars :
          /\ Len(chart.bars[service]) >= 3
          /\ \E i \in 1..(Len(EventsOfService(service)) - 1) :
                /\ EventsOfService(service)[i].time = EventsOfService(service)[i + 1].time
                /\ EventsOfService(service)[i].status
                      # EventsOfService(service)[i + 1].status

(***************************************************************************)
(* C10                                                                     *)
(***************************************************************************)
\* C10: a detected service name, requested exactly as listed, is accepted
\* by the validation, and the chart shows the services whose names equal it
\* case-insensitively.
C10_DetectedNameIsSelectable ==
    ( /\ pc = "end"
      /\ Len(services_to_plot) = 1
      /\ services_to_plot[1] \in AllDetectedServices(all_events.events) )
    => /\ invalid_services_original = <<>>
       /\ services_for_charting = services_to_plot
       /\ chart.drawn
       /\ DOMAIN chart.bars
             = {d \in AllDetectedServices(all_events.events) :
                   Lower(d) = Lower(services_to_plot[1])}

====
